---- MODULE Spec2Model ----
(***************************************************************************)
(* Model of the Tegra186 PMC register-control core                         *)
(* (drivers/platform/tegra/tegra186-pmc.c).                                *)
(*                                                                         *)
(* A 32-bit register value is the set of its set bit positions, so         *)
(* a & b is intersection, a | b is union and ~a is the complement in Bits. *)
(* Every exported function is split into the steps another context can     *)
(* observe: taking the spinlock, each readl, each writel, the settle delay *)
(* and releasing the spinlock.                                             *)
(***************************************************************************)
EXTENDS Integers, FiniteSets, Sequences, TLC

----------------------------------------------------------------------------
(* Words *)

WordBits == 32
Bits == 0 .. (WordBits - 1)
BIT(n) == {n}
NoBits == {}

----------------------------------------------------------------------------
(* Register offsets and bit masks, tegra186-pmc.c lines 30..104 *)

PMC_NO_IOPOWER == 52
PMC_SATA_PWRGT_0 == 104
PMC_IO_DPD_REQ == 116
PMC_IO_DPD_CSIA_MASK == BIT(0)
PMC_IO_DPD_CSIB_MASK == BIT(1)
PMC_IO_DPD_STATUS == 120
PMC_IO_DPD2_REQ == 124
PMC_IO_DPD2_CSIC_MASK == BIT(11)
PMC_IO_DPD2_CSID_MASK == BIT(12)
PMC_IO_DPD2_CSIE_MASK == BIT(13)
PMC_IO_DPD2_CSIF_MASK == BIT(14)
PMC_IO_SEL_DPD_TIM == 188
PMC_UFSHC_PWR_CNTRL_0 == 244
PMC_FUSE_CTRL == 256
PMC_FUSE_CTRL_ENABLE_REDIRECTION == BIT(0)
PMC_FUSE_CTRL_DISABLE_REDIRECTION == BIT(1)
PMC_FUSE_CTRL_PS18_LATCH_SET == BIT(8)
PMC_FUSE_CTRL_PS18_LATCH_CLEAR == BIT(9)

\* 0x10, the value written to PMC_IO_SEL_DPD_TIM
DPD_TIM_VALUE == BIT(4)

NumDpdGroups == 8
DpdGroups == 0 .. (NumDpdGroups - 1)

\* faulty variant: the groups are taken to be one word apart
DpdReqOffset_OneWordApart(reg) == PMC_IO_DPD_REQ + reg * 4

\* PMC_IO_DPD_REQ + reg * 8 and PMC_IO_DPD_STATUS + reg * 8
DpdReqOffset(reg) == PMC_IO_DPD_REQ + reg * 8
DpdStatusOffset(reg) == PMC_IO_DPD_STATUS + reg * 8

Offsets ==
    {DpdReqOffset(g) : g \in DpdGroups} \cup {DpdStatusOffset(g) : g \in DpdGroups}
    \cup {PMC_NO_IOPOWER, PMC_SATA_PWRGT_0, PMC_IO_SEL_DPD_TIM,
          PMC_UFSHC_PWR_CNTRL_0, PMC_FUSE_CTRL}

----------------------------------------------------------------------------
(* Execution contexts and the inputs the calls are drawn from *)

Ctx == {"A", "B"}
Free == "free"

\* calls a single context makes one after the other
MaxCalls == 2

SeedPool == {NoBits, Bits, {0, 8, 12, 31}, {1, 9, 11, 30}}
MaskPool == {NoBits, {0}, {1, 8, 31}, Bits}
ValPool == {NoBits, {0, 1, 8, 30}, Bits}
UpdOffsets == {PMC_NO_IOPOWER, PMC_FUSE_CTRL, PMC_IO_DPD2_REQ}
IoMaskPool == {{0}, {1, 8, 31}, Bits}
DpdBitPos == Bits
FaultPool == {NoBits, Bits}
FuseSeedBits == {0, 1, 8, 9, 31}
BrickSeedPool == {NoBits, Bits, {0, 5, 11, 14}, {1, 12, 13, 31}}

----------------------------------------------------------------------------
VARIABLES
    regs,      \* the register block: offset -> value
    lock,      \* tegra186_pmc_access_lock: Free or the context holding it
    pc,        \* where each context is
    call,      \* the call each context is in: function and arguments
    val,       \* each context's local (pmc_reg / val / dpd_status / no_iopower)
    ret,       \* value returned by the finished call (-1: none)
    warned,    \* the call in progress has printed its pr_info
    nw,        \* writel's performed by the call so far
    pre,       \* the register block when the call was entered
    prev,      \* the context's previous, finished call
    budget,    \* calls each context may still make
    hwfault,   \* the DPD hardware is faulty (status need not follow request)
    wlog       \* the last writel: who, where, and whether the lock was held

vars == <<regs, lock, pc, call, val, ret, warned, nw, pre, prev, budget,
          hwfault, wlog>>

\* a call: <<function, register offset or group, mask, value, bit position>>
Op(cl) == cl[1]
Arg(cl) == cl[2]
Mask(cl) == cl[3]
Val(cl) == cl[4]
BitPos(cl) == cl[5]
NoCall == <<"none", 0, NoBits, NoBits, 0>>

\* a finished call: <<call, writel's it performed, value it returned>>
LastCall(p) == p[1]
LastWrites(p) == p[2]
LastRet(p) == p[3]
NoPrev == <<NoCall, 0, -1>>

\* a writel: <<context, register offset, lock held by the writer>>
Guarded(w) == w[3]
NoWrite == <<"none", 0, TRUE>>

----------------------------------------------------------------------------
(* Register access, lines 110..118 *)

tegra186_pmc_readl(reg) == regs[reg]

tegra186_pmc_writel(c, v, reg) ==
    /\ regs' = [regs EXCEPT ![reg] = v]
    /\ nw' = [nw EXCEPT ![c] = @ + 1]
    /\ wlog' = <<c, reg, lock = c>>

\* faulty variant: the masked bits are never cleared, pmc_reg | (val & mask)
RegisterUpdateValue_NoClear(pmc_reg, mask, v) == pmc_reg \cup (v \cap mask)

\* line 126: (pmc_reg & ~mask) | (val & mask)
RegisterUpdateValue(pmc_reg, mask, v) == (pmc_reg \ mask) \cup (v \cap mask)

----------------------------------------------------------------------------
(* Entering and leaving a call *)

Enter(c, o, first) ==
    /\ pc[c] \in {"idle", "done"}
    /\ budget[c] > 0
    /\ budget' = [budget EXCEPT ![c] = @ - 1]
    /\ prev' = [prev EXCEPT ![c] =
                  IF pc[c] = "done"
                  THEN <<call[c], nw[c], ret[c]>>
                  ELSE NoPrev]
    /\ call' = [call EXCEPT ![c] = o]
    /\ pre' = [pre EXCEPT ![c] = regs]
    /\ nw' = [nw EXCEPT ![c] = 0]
    /\ ret' = [ret EXCEPT ![c] = -1]
    /\ warned' = [warned EXCEPT ![c] = FALSE]
    /\ val' = [val EXCEPT ![c] = NoBits]
    /\ pc' = [pc EXCEPT ![c] = first]
    /\ UNCHANGED <<regs, lock, hwfault, wlog>>

Goto(c, label) == pc' = [pc EXCEPT ![c] = label]

----------------------------------------------------------------------------
(* The spinlock, lines 106, 135..137, 152, 164 *)

\* faulty variant: the update enters its critical section without waiting for the lock
spin_lock_irqsave_NoWait(c) ==
    /\ pc[c] = "upd_lock"
    /\ lock' = c
    /\ Goto(c, "upd_read")
    /\ UNCHANGED <<regs, call, val, ret, warned, nw, pre, prev, budget, hwfault, wlog>>

\* spin_lock_irqsave(&tegra186_pmc_access_lock, flags): spins until free
spin_lock_irqsave(c) ==
    /\ pc[c] = "upd_lock"
    /\ lock = Free
    /\ lock' = c
    /\ Goto(c, "upd_read")
    /\ UNCHANGED <<regs, call, val, ret, warned, nw, pre, prev, budget, hwfault, wlog>>

\* spin_unlock_irqrestore(&tegra186_pmc_access_lock, flags), then return
spin_unlock_irqrestore(c) ==
    /\ pc[c] = "upd_unlock"
    /\ lock' = Free
    /\ Goto(c, "done")
    /\ UNCHANGED <<regs, call, val, ret, warned, nw, pre, prev, budget, hwfault, wlog>>

\* spin_lock(&tegra186_pmc_access_lock) of the DPD enable / disable sequences
spin_lock(c) ==
    /\ pc[c] = "dpd_lock"
    /\ lock = Free
    /\ lock' = c
    /\ Goto(c, IF Op(call[c]) = "io_dpd_enable" THEN "dpd_tim" ELSE "dpd_req")
    /\ UNCHANGED <<regs, call, val, ret, warned, nw, pre, prev, budget, hwfault, wlog>>

\* faulty variant: the DPD sequence returns without releasing the lock
spin_unlock_NoRelease(c) ==
    /\ pc[c] = "dpd_unlock"
    /\ ret' = [ret EXCEPT ![c] = 0]
    /\ Goto(c, "done")
    /\ UNCHANGED <<regs, lock, call, val, warned, nw, pre, prev, budget, hwfault, wlog>>

\* spin_unlock(&tegra186_pmc_access_lock); return 0
spin_unlock(c) ==
    /\ pc[c] = "dpd_unlock"
    /\ lock' = Free
    /\ ret' = [ret EXCEPT ![c] = 0]
    /\ Goto(c, "done")
    /\ UNCHANGED <<regs, call, val, warned, nw, pre, prev, budget, hwfault, wlog>>

----------------------------------------------------------------------------
(* _tegra186_pmc_register_update, lines 120..128 *)

\* line 125: pmc_reg = tegra186_pmc_readl(offset)
register_update_read(c) ==
    /\ pc[c] = "upd_read"
    /\ val' = [val EXCEPT ![c] = tegra186_pmc_readl(Arg(call[c]))]
    /\ Goto(c, "upd_write")
    /\ UNCHANGED <<regs, lock, call, ret, warned, nw, pre, prev, budget, hwfault, wlog>>

\* lines 126..127: compute and tegra186_pmc_writel(pmc_reg, offset)
register_update_write(c) ==
    /\ pc[c] = "upd_write"
    /\ LET v == RegisterUpdateValue(val[c], Mask(call[c]), Val(call[c]))
       IN /\ val' = [val EXCEPT ![c] = v]
          /\ tegra186_pmc_writel(c, v, Arg(call[c]))
    /\ Goto(c, "upd_unlock")
    /\ UNCHANGED <<lock, call, ret, warned, pre, prev, budget, hwfault>>

----------------------------------------------------------------------------
(* The guarded update and its fixed-offset wrappers *)

UpdateCall(name, offset, mask, v) ==
    <<name, offset, mask, v, 0>>

\* lines 130..138
tegra186_pmc_register_update(c, offset, mask, v) ==
    Enter(c, UpdateCall("register_update", offset, mask, v), "upd_lock")

\* lines 202..210
tegra_pmc_pad_voltage_update(c, reg, mask, v) ==
    Enter(c, UpdateCall("pad_voltage_update", reg, mask, v), "upd_lock")

\* lines 219..226
tegra_pmc_nvcsi_ab_brick_update(c, mask, v) ==
    Enter(c, UpdateCall("nvcsi_ab_brick_update", PMC_IO_DPD_REQ, mask, v), "upd_lock")

\* lines 235..242
tegra_pmc_nvcsi_cdef_brick_update(c, mask, v) ==
    Enter(c, UpdateCall("nvcsi_cdef_brick_update", PMC_IO_DPD2_REQ, mask, v), "upd_lock")

\* lines 282..289
tegra_pmc_ufs_pwrcntrl_update(c, mask, v) ==
    Enter(c, UpdateCall("ufs_pwrcntrl_update", PMC_UFSHC_PWR_CNTRL_0, mask, v), "upd_lock")

\* lines 322..329
tegra_pmc_sata_pwrgt_update(c, mask, v) ==
    Enter(c, UpdateCall("sata_pwrgt_update", PMC_SATA_PWRGT_0, mask, v), "upd_lock")

----------------------------------------------------------------------------
(* I/O power, lines 298..320 *)

\* faulty variant: enable passes bit_mask as the value, as disable does
tegra_pmc_iopower_enable_SetsBits(c, reg, bit_mask) ==
    Enter(c, UpdateCall("iopower_enable", reg, bit_mask, bit_mask), "upd_lock")

\* tegra186_pmc_register_update(reg, bit_mask, 0)
tegra_pmc_iopower_enable(c, reg, bit_mask) ==
    Enter(c, UpdateCall("iopower_enable", reg, bit_mask, NoBits), "upd_lock")

\* tegra186_pmc_register_update(reg, bit_mask, bit_mask)
tegra_pmc_iopower_disable(c, reg, bit_mask) ==
    Enter(c, UpdateCall("iopower_disable", reg, bit_mask, bit_mask), "upd_lock")

tegra_pmc_iopower_get_status(c, reg, bit_mask) ==
    Enter(c, UpdateCall("iopower_get_status", reg, bit_mask, NoBits), "iop_read")

\* lines 314..318: no_iopower & bit_mask ? 0 : 1
IopowerStatus(no_iopower, bit_mask) ==
    IF (no_iopower \cap bit_mask) # NoBits THEN 0 ELSE 1

iopower_get_status_read(c) ==
    /\ pc[c] = "iop_read"
    /\ val' = [val EXCEPT ![c] = tegra186_pmc_readl(Arg(call[c]))]
    /\ ret' = [ret EXCEPT ![c] =
                 IopowerStatus(tegra186_pmc_readl(Arg(call[c])), Mask(call[c]))]
    /\ Goto(c, "done")
    /\ UNCHANGED <<regs, lock, call, warned, nw, pre, prev, budget, hwfault, wlog>>

----------------------------------------------------------------------------
(* DPD group controller, lines 147..200 *)

DpdCall(name, reg, bit_pos) ==
    <<name, reg, NoBits, NoBits, bit_pos>>

tegra186_pmc_io_dpd_enable(c, reg, bit_pos) ==
    Enter(c, DpdCall("io_dpd_enable", reg, bit_pos), "dpd_lock")

tegra186_pmc_io_dpd_disable(c, reg, bit_pos) ==
    Enter(c, DpdCall("io_dpd_disable", reg, bit_pos), "dpd_lock")

tegra186_pmc_io_dpd_get_status(c, reg, bit_pos) ==
    Enter(c, DpdCall("io_dpd_get_status", reg, bit_pos), "dpd_get")

\* line 153: tegra186_pmc_writel(0x10, PMC_IO_SEL_DPD_TIM)
io_dpd_write_tim(c) ==
    /\ pc[c] = "dpd_tim"
    /\ tegra186_pmc_writel(c, DPD_TIM_VALUE, PMC_IO_SEL_DPD_TIM)
    /\ Goto(c, "dpd_req")
    /\ UNCHANGED <<lock, call, val, ret, warned, pre, prev, budget, hwfault>>

\* lines 154..156 and 175..177: enable_mask = (1 << bit_pos), in both functions
DpdEnableRequest(bit_pos) == BIT(bit_pos)
DpdDisableRequest(bit_pos) == BIT(bit_pos)

DpdRequest(op, bit_pos) ==
    IF op = "io_dpd_enable" THEN DpdEnableRequest(bit_pos)
    ELSE DpdDisableRequest(bit_pos)

\* faulty variant: the status register is read right after the request write
io_dpd_write_req_NoDelay(c) ==
    /\ pc[c] = "dpd_req"
    /\ tegra186_pmc_writel(c, DpdRequest(Op(call[c]), BitPos(call[c])),
                           DpdReqOffset(Arg(call[c])))
    /\ Goto(c, "dpd_status")
    /\ UNCHANGED <<lock, call, val, ret, warned, pre, prev, budget, hwfault>>

\* lines 156 and 177: tegra186_pmc_writel(enable_mask, PMC_IO_DPD_REQ + reg * 8)
io_dpd_write_req(c) ==
    /\ pc[c] = "dpd_req"
    /\ tegra186_pmc_writel(c, DpdRequest(Op(call[c]), BitPos(call[c])),
                           DpdReqOffset(Arg(call[c])))
    /\ Goto(c, "dpd_delay")
    /\ UNCHANGED <<lock, call, val, ret, warned, pre, prev, budget, hwfault>>

\* What the pad hardware shows in a group's status register once the settle
\* time has passed: fault-free hardware follows the request register, faulty
\* hardware stays as it was or shows any word of FaultPool.
HwDpdStatus(status, request) ==
    IF hwfault THEN {status} \cup FaultPool ELSE {request}

\* lines 157 and 178: udelay(7), during which the hardware settles
udelay(c) ==
    /\ pc[c] = "dpd_delay"
    /\ \E s \in HwDpdStatus(regs[DpdStatusOffset(Arg(call[c]))],
                            regs[DpdReqOffset(Arg(call[c]))]) :
          regs' = [regs EXCEPT ![DpdStatusOffset(Arg(call[c]))] = s]
    /\ Goto(c, "dpd_status")
    /\ UNCHANGED <<lock, call, val, ret, warned, nw, pre, prev, budget, hwfault, wlog>>

\* faulty variant: disable warns on the condition of enable
DpdDisableWarns_AsEnable(dpd_status, bit_pos) == (dpd_status \cap BIT(bit_pos)) = NoBits

\* lines 160 and 181: the condition under which pr_info is called
DpdEnableWarns(dpd_status, bit_pos) == (dpd_status \cap BIT(bit_pos)) = NoBits
DpdDisableWarns(dpd_status, bit_pos) == (dpd_status \cap BIT(bit_pos)) # NoBits

\* lines 159..163 and 180..184: read the status and report a mismatch
io_dpd_read_status(c) ==
    /\ pc[c] = "dpd_status"
    /\ LET dpd_status == tegra186_pmc_readl(DpdStatusOffset(Arg(call[c])))
       IN /\ val' = [val EXCEPT ![c] = dpd_status]
          /\ warned' = [warned EXCEPT ![c] =
                IF Op(call[c]) = "io_dpd_enable"
                THEN DpdEnableWarns(dpd_status, BitPos(call[c]))
                ELSE DpdDisableWarns(dpd_status, BitPos(call[c]))]
    /\ Goto(c, "dpd_unlock")
    /\ UNCHANGED <<regs, lock, call, ret, nw, pre, prev, budget, hwfault, wlog>>

\* lines 194..198
DpdStatusBit(dpd_status, bit_pos) ==
    IF (dpd_status \cap BIT(bit_pos)) # NoBits THEN 1 ELSE 0

io_dpd_get_status_read(c) ==
    /\ pc[c] = "dpd_get"
    /\ val' = [val EXCEPT ![c] = tegra186_pmc_readl(DpdStatusOffset(Arg(call[c])))]
    /\ ret' = [ret EXCEPT ![c] =
          DpdStatusBit(tegra186_pmc_readl(DpdStatusOffset(Arg(call[c]))), BitPos(call[c]))]
    /\ Goto(c, "done")
    /\ UNCHANGED <<regs, lock, call, warned, nw, pre, prev, budget, hwfault, wlog>>

----------------------------------------------------------------------------
(* NVCSI brick DPD, lines 251..280: no lock is taken *)

NVCSI_AB_MASK == PMC_IO_DPD_CSIA_MASK \cup PMC_IO_DPD_CSIB_MASK
NVCSI_CDEF_MASK ==
    PMC_IO_DPD2_CSIC_MASK \cup PMC_IO_DPD2_CSID_MASK
    \cup PMC_IO_DPD2_CSIE_MASK \cup PMC_IO_DPD2_CSIF_MASK

PlainCall(name) ==
    <<name, 0, NoBits, NoBits, 0>>

tegra186_pmc_enable_nvcsi_brick_dpd(c) ==
    Enter(c, PlainCall("enable_nvcsi_brick_dpd"), "brick_read1")

tegra186_pmc_disable_nvcsi_brick_dpd(c) ==
    Enter(c, PlainCall("disable_nvcsi_brick_dpd"), "brick_read1")

\* faulty variant: val &= mask, the complement forgotten
BrickDisableValue_NoComplement(v, mask) == v \cap mask

\* lines 256..257, 261..262 (val |= mask) and 272, 276..277 (val &= ~mask)
BrickEnableValue(v, mask) == v \cup mask
BrickDisableValue(v, mask) == v \ mask

BrickValue(op, v, mask) ==
    IF op = "enable_nvcsi_brick_dpd" THEN BrickEnableValue(v, mask)
    ELSE BrickDisableValue(v, mask)

\* lines 255, 271: val = tegra186_pmc_readl(PMC_IO_DPD_REQ)
brick_read_ab(c) ==
    /\ pc[c] = "brick_read1"
    /\ val' = [val EXCEPT ![c] = tegra186_pmc_readl(PMC_IO_DPD_REQ)]
    /\ Goto(c, "brick_write1")
    /\ UNCHANGED <<regs, lock, call, ret, warned, nw, pre, prev, budget, hwfault, wlog>>

\* lines 256..258, 272..273
brick_write_ab(c) ==
    /\ pc[c] = "brick_write1"
    /\ LET v == BrickValue(Op(call[c]), val[c], NVCSI_AB_MASK)
       IN /\ val' = [val EXCEPT ![c] = v]
          /\ tegra186_pmc_writel(c, v, PMC_IO_DPD_REQ)
    /\ Goto(c, "brick_read2")
    /\ UNCHANGED <<lock, call, ret, warned, pre, prev, budget, hwfault>>

\* lines 260, 275: val = tegra186_pmc_readl(PMC_IO_DPD2_REQ)
brick_read_cdef(c) ==
    /\ pc[c] = "brick_read2"
    /\ val' = [val EXCEPT ![c] = tegra186_pmc_readl(PMC_IO_DPD2_REQ)]
    /\ Goto(c, "brick_write2")
    /\ UNCHANGED <<regs, lock, call, ret, warned, nw, pre, prev, budget, hwfault, wlog>>

\* lines 261..263, 276..278
brick_write_cdef(c) ==
    /\ pc[c] = "brick_write2"
    /\ LET v == BrickValue(Op(call[c]), val[c], NVCSI_CDEF_MASK)
       IN /\ val' = [val EXCEPT ![c] = v]
          /\ tegra186_pmc_writel(c, v, PMC_IO_DPD2_REQ)
    /\ Goto(c, "done")
    /\ UNCHANGED <<lock, call, ret, warned, pre, prev, budget, hwfault>>

----------------------------------------------------------------------------
(* Fuse control, lines 338..386: no lock is taken *)

tegra_pmc_fuse_control_ps18_latch_set(c) ==
    Enter(c, PlainCall("ps18_latch_set"), "latch_read")

tegra_pmc_fuse_control_ps18_latch_clear(c) ==
    Enter(c, PlainCall("ps18_latch_clear"), "latch_read")

tegra_pmc_fuse_disable_mirroring(c) ==
    Enter(c, PlainCall("fuse_disable_mirroring"), "mirror_read")

tegra_pmc_fuse_enable_mirroring(c) ==
    Enter(c, PlainCall("fuse_enable_mirroring"), "mirror_read")

\* faulty variant: both functions remove the CLEAR bit first
LatchOpposite_AlwaysClear(op) == PMC_FUSE_CTRL_PS18_LATCH_CLEAR

\* the bit the first write removes (lines 343, 357) and the bit the second
\* write asserts (lines 346, 360)
LatchOpposite(op) ==
    IF op = "ps18_latch_set" THEN PMC_FUSE_CTRL_PS18_LATCH_CLEAR
    ELSE PMC_FUSE_CTRL_PS18_LATCH_SET
LatchAsserted(op) ==
    IF op = "ps18_latch_set" THEN PMC_FUSE_CTRL_PS18_LATCH_SET
    ELSE PMC_FUSE_CTRL_PS18_LATCH_CLEAR

\* lines 342, 356: val = tegra186_pmc_readl(PMC_FUSE_CTRL)
latch_read(c) ==
    /\ pc[c] = "latch_read"
    /\ val' = [val EXCEPT ![c] = tegra186_pmc_readl(PMC_FUSE_CTRL)]
    /\ Goto(c, "latch_write1")
    /\ UNCHANGED <<regs, lock, call, ret, warned, nw, pre, prev, budget, hwfault, wlog>>

\* faulty variant: the first write leaves the opposite bit in place
latch_write_first_KeepsOpposite(c) ==
    /\ pc[c] = "latch_write1"
    /\ tegra186_pmc_writel(c, val[c], PMC_FUSE_CTRL)
    /\ Goto(c, "latch_write2")
    /\ UNCHANGED <<lock, call, val, ret, warned, pre, prev, budget, hwfault>>

\* lines 343..345, 357..359: val &= ~opposite; writel; mdelay(1)
latch_write_first(c) ==
    /\ pc[c] = "latch_write1"
    /\ LET v == val[c] \ LatchOpposite(Op(call[c]))
       IN /\ val' = [val EXCEPT ![c] = v]
          /\ tegra186_pmc_writel(c, v, PMC_FUSE_CTRL)
    /\ Goto(c, "latch_write2")
    /\ UNCHANGED <<lock, call, ret, warned, pre, prev, budget, hwfault>>

\* lines 346..348, 360..362: val |= asserted; writel; mdelay(1)
latch_write_second(c) ==
    /\ pc[c] = "latch_write2"
    /\ LET v == val[c] \cup LatchAsserted(Op(call[c]))
       IN /\ val' = [val EXCEPT ![c] = v]
          /\ tegra186_pmc_writel(c, v, PMC_FUSE_CTRL)
    /\ Goto(c, "done")
    /\ UNCHANGED <<lock, call, ret, warned, pre, prev, budget, hwfault>>

\* faulty variant: the register is written without looking at its value
MirroringWrites_Always(op, v) == TRUE

\* lines 371 and 382: the condition under which the register is written
MirroringWrites(op, v) ==
    IF op = "fuse_disable_mirroring"
    THEN (v \cap PMC_FUSE_CTRL_ENABLE_REDIRECTION) # NoBits
    ELSE (v \cap PMC_FUSE_CTRL_ENABLE_REDIRECTION) = NoBits

\* faulty variant: the redirection bit is or-ed into the word read
MirroringValue_OrsIn(op, v) ==
    IF op = "fuse_disable_mirroring"
    THEN v \cup PMC_FUSE_CTRL_DISABLE_REDIRECTION
    ELSE v \cup PMC_FUSE_CTRL_ENABLE_REDIRECTION

\* lines 372 and 383: the word written, whatever the register held
MirroringValue(op, v) ==
    IF op = "fuse_disable_mirroring"
    THEN PMC_FUSE_CTRL_DISABLE_REDIRECTION
    ELSE PMC_FUSE_CTRL_ENABLE_REDIRECTION

\* lines 370..371, 381..382
mirroring_read(c) ==
    /\ pc[c] = "mirror_read"
    /\ val' = [val EXCEPT ![c] = tegra186_pmc_readl(PMC_FUSE_CTRL)]
    /\ Goto(c, IF MirroringWrites(Op(call[c]), tegra186_pmc_readl(PMC_FUSE_CTRL))
               THEN "mirror_write" ELSE "done")
    /\ UNCHANGED <<regs, lock, call, ret, warned, nw, pre, prev, budget, hwfault, wlog>>

\* lines 372..373, 383..384
mirroring_write(c) ==
    /\ pc[c] = "mirror_write"
    /\ tegra186_pmc_writel(c, MirroringValue(Op(call[c]), val[c]), PMC_FUSE_CTRL)
    /\ Goto(c, "done")
    /\ UNCHANGED <<lock, call, val, ret, warned, pre, prev, budget, hwfault>>

----------------------------------------------------------------------------
(* Initial states *)

InitContexts(calls) ==
    /\ lock = Free
    /\ pc = [c \in Ctx |-> "idle"]
    /\ call = [c \in Ctx |-> NoCall]
    /\ val = [c \in Ctx |-> NoBits]
    /\ ret = [c \in Ctx |-> -1]
    /\ warned = [c \in Ctx |-> FALSE]
    /\ nw = [c \in Ctx |-> 0]
    /\ pre = [c \in Ctx |-> regs]
    /\ prev = [c \in Ctx |-> NoPrev]
    /\ budget = calls
    /\ wlog = NoWrite

\* context A makes MaxCalls calls one after the other, B none
OneCaller == [c \in Ctx |-> IF c = "A" THEN MaxCalls ELSE 0]
\* context A makes one call
SingleCall == [c \in Ctx |-> IF c = "A" THEN 1 ELSE 0]
\* A and B make one call each, at the same time
TwoCallers == [c \in Ctx |-> 1]
\* A and B make MaxCalls calls each, at the same time
BothCallers == [c \in Ctx |-> MaxCalls]

\* every register starts at the same word of SeedPool
InitSeeded ==
    \E s \in SeedPool : regs = [o \in Offsets |-> s]

----------------------------------------------------------------------------
(* One call of the update family, from any seeded register block *)

InitUpdate ==
    /\ \E s \in SeedPool, t \in SeedPool :
          regs = [o \in Offsets |-> IF o \in UpdOffsets THEN s ELSE t]
    /\ hwfault = FALSE
    /\ InitContexts(SingleCall)

NextUpdate ==
    \/ \E o \in UpdOffsets, m \in MaskPool, v \in ValPool :
          tegra186_pmc_register_update("A", o, m, v)
    \/ \E o \in UpdOffsets, m \in MaskPool, v \in ValPool :
          tegra_pmc_pad_voltage_update("A", o, m, v)
    \/ \E m \in MaskPool, v \in ValPool : tegra_pmc_nvcsi_ab_brick_update("A", m, v)
    \/ \E m \in MaskPool, v \in ValPool : tegra_pmc_nvcsi_cdef_brick_update("A", m, v)
    \/ \E m \in MaskPool, v \in ValPool : tegra_pmc_ufs_pwrcntrl_update("A", m, v)
    \/ \E m \in MaskPool, v \in ValPool : tegra_pmc_sata_pwrgt_update("A", m, v)
    \/ spin_lock_irqsave("A")
    \/ register_update_read("A")
    \/ register_update_write("A")
    \/ spin_unlock_irqrestore("A")

SpecUpdate == InitUpdate /\ [][NextUpdate]_vars

----------------------------------------------------------------------------
(* I/O power, called one after the other by one context *)

InitIopower ==
    /\ InitSeeded
    /\ hwfault = FALSE
    /\ InitContexts(OneCaller)

NextIopower ==
    \/ \E o \in UpdOffsets, m \in IoMaskPool : tegra_pmc_iopower_enable("A", o, m)
    \/ \E o \in UpdOffsets, m \in IoMaskPool : tegra_pmc_iopower_disable("A", o, m)
    \/ \E o \in UpdOffsets, m \in IoMaskPool : tegra_pmc_iopower_get_status("A", o, m)
    \/ iopower_get_status_read("A")
    \/ spin_lock_irqsave("A")
    \/ register_update_read("A")
    \/ register_update_write("A")
    \/ spin_unlock_irqrestore("A")

SpecIopower == InitIopower /\ [][NextIopower]_vars

----------------------------------------------------------------------------
(* The DPD group controller: one context drives one pad (group, bit)      *)
(* through a sequence of enable / disable / get_status calls              *)

InitDpd ==
    /\ \E s \in {NoBits, Bits} : regs = [o \in Offsets |-> s]
    /\ hwfault \in BOOLEAN
    /\ InitContexts(OneCaller)

\* the pad of the context's first call is the pad of its later calls
PadGroups(c) == IF pc[c] = "idle" THEN DpdGroups ELSE {Arg(call[c])}
PadBitPos(c) == IF pc[c] = "idle" THEN DpdBitPos ELSE {BitPos(call[c])}

NextDpd ==
    \/ \E g \in PadGroups("A"), b \in PadBitPos("A") :
          tegra186_pmc_io_dpd_enable("A", g, b)
    \/ \E g \in PadGroups("A"), b \in PadBitPos("A") :
          tegra186_pmc_io_dpd_disable("A", g, b)
    \/ \E g \in PadGroups("A"), b \in PadBitPos("A") :
          tegra186_pmc_io_dpd_get_status("A", g, b)
    \/ spin_lock("A")
    \/ io_dpd_write_tim("A")
    \/ io_dpd_write_req("A")
    \/ udelay("A")
    \/ io_dpd_read_status("A")
    \/ spin_unlock("A")
    \/ io_dpd_get_status_read("A")

SpecDpd == InitDpd /\ [][NextDpd]_vars

----------------------------------------------------------------------------
(* Fuse control, called one after the other by one context *)

InitFuse ==
    /\ \E f \in SUBSET FuseSeedBits :
          regs = [o \in Offsets |-> IF o = PMC_FUSE_CTRL THEN f ELSE NoBits]
    /\ hwfault = FALSE
    /\ InitContexts(OneCaller)

NextFuse ==
    \/ tegra_pmc_fuse_control_ps18_latch_set("A")
    \/ tegra_pmc_fuse_control_ps18_latch_clear("A")
    \/ tegra_pmc_fuse_disable_mirroring("A")
    \/ tegra_pmc_fuse_enable_mirroring("A")
    \/ latch_read("A")
    \/ latch_write_first("A")
    \/ latch_write_second("A")
    \/ mirroring_read("A")
    \/ mirroring_write("A")

SpecFuse == InitFuse /\ [][NextFuse]_vars

----------------------------------------------------------------------------
(* NVCSI brick DPD, called one after the other by one context *)

InitBrick ==
    /\ \E s \in BrickSeedPool, t \in BrickSeedPool :
          regs = [o \in Offsets |-> IF o = PMC_IO_DPD_REQ THEN s ELSE t]
    /\ hwfault = FALSE
    /\ InitContexts(OneCaller)

NextBrick ==
    \/ tegra186_pmc_enable_nvcsi_brick_dpd("A")
    \/ tegra186_pmc_disable_nvcsi_brick_dpd("A")
    \/ brick_read_ab("A")
    \/ brick_write_ab("A")
    \/ brick_read_cdef("A")
    \/ brick_write_cdef("A")

SpecBrick == InitBrick /\ [][NextBrick]_vars

----------------------------------------------------------------------------
(* Two contexts, each making one call of any function, at the same time *)

ConcSeedPool == {NoBits, {0, 1, 8, 9, 11, 30}}
ConcOffsets == {PMC_FUSE_CTRL, PMC_IO_DPD_REQ}
ConcMaskPool == {{0}, {1, 8, 31}}
ConcValPool == {NoBits, Bits}
ConcGroups == {0, 1}
ConcBitPos == {0, 31}

Init ==
    /\ \E s \in ConcSeedPool : regs = [o \in Offsets |-> s]
    /\ hwfault = FALSE
    /\ InitContexts(TwoCallers)

Next ==
    \E c \in Ctx :
       \/ \E o \in ConcOffsets, m \in ConcMaskPool, v \in ConcValPool :
             tegra186_pmc_register_update(c, o, m, v)
       \/ \E o \in ConcOffsets, m \in ConcMaskPool, v \in ConcValPool :
             tegra_pmc_pad_voltage_update(c, o, m, v)
       \/ \E m \in ConcMaskPool, v \in ConcValPool :
             tegra_pmc_nvcsi_ab_brick_update(c, m, v)
       \/ \E m \in ConcMaskPool, v \in ConcValPool :
             tegra_pmc_nvcsi_cdef_brick_update(c, m, v)
       \/ \E m \in ConcMaskPool, v \in ConcValPool :
             tegra_pmc_ufs_pwrcntrl_update(c, m, v)
       \/ \E m \in ConcMaskPool, v \in ConcValPool :
             tegra_pmc_sata_pwrgt_update(c, m, v)
       \/ \E o \in ConcOffsets, m \in ConcMaskPool : tegra_pmc_iopower_enable(c, o, m)
       \/ \E o \in ConcOffsets, m \in ConcMaskPool : tegra_pmc_iopower_disable(c, o, m)
       \/ \E o \in ConcOffsets, m \in ConcMaskPool : tegra_pmc_iopower_get_status(c, o, m)
       \/ \E g \in ConcGroups, b \in ConcBitPos : tegra186_pmc_io_dpd_enable(c, g, b)
       \/ \E g \in ConcGroups, b \in ConcBitPos : tegra186_pmc_io_dpd_disable(c, g, b)
       \/ \E g \in ConcGroups, b \in ConcBitPos : tegra186_pmc_io_dpd_get_status(c, g, b)
       \/ tegra186_pmc_enable_nvcsi_brick_dpd(c)
       \/ tegra186_pmc_disable_nvcsi_brick_dpd(c)
       \/ tegra_pmc_fuse_control_ps18_latch_set(c)
       \/ tegra_pmc_fuse_control_ps18_latch_clear(c)
       \/ tegra_pmc_fuse_disable_mirroring(c)
       \/ tegra_pmc_fuse_enable_mirroring(c)
       \/ spin_lock_irqsave(c)
       \/ register_update_read(c)
       \/ register_update_write(c)
       \/ spin_unlock_irqrestore(c)
       \/ iopower_get_status_read(c)
       \/ spin_lock(c)
       \/ io_dpd_write_tim(c)
       \/ io_dpd_write_req(c)
       \/ udelay(c)
       \/ io_dpd_read_status(c)
       \/ spin_unlock(c)
       \/ io_dpd_get_status_read(c)
       \/ brick_read_ab(c)
       \/ brick_write_ab(c)
       \/ brick_read_cdef(c)
       \/ brick_write_cdef(c)
       \/ latch_read(c)
       \/ latch_write_first(c)
       \/ latch_write_second(c)
       \/ mirroring_read(c)
       \/ mirroring_write(c)

Spec == Init /\ [][Next]_vars

----------------------------------------------------------------------------
(* A process context A and an interrupt handler B on the same CPU: the    *)
(* handler runs to completion before the interrupted code resumes, and it *)
(* can only arrive while A has local interrupts enabled                   *)

\* spin_lock_irqsave turns local interrupts off until spin_unlock_irqrestore;
\* spin_lock and spin_unlock leave them as they are
IrqsDisabled(c) == pc[c] \in {"upd_read", "upd_write", "upd_unlock"}

\* the handler has been entered and has not returned
InInterrupt == pc["B"] \notin {"idle", "done"}

IrqBitPos == {0, 5, 31}

InitIrq ==
    /\ \E s \in ConcSeedPool : regs = [o \in Offsets |-> s]
    /\ hwfault = FALSE
    /\ InitContexts(TwoCallers)

NextIrq ==
    \/ /\ ~InInterrupt
       /\ \/ \E g \in ConcGroups, b \in IrqBitPos : tegra186_pmc_io_dpd_enable("A", g, b)
          \/ \E g \in ConcGroups, b \in IrqBitPos : tegra186_pmc_io_dpd_disable("A", g, b)
          \/ \E o \in ConcOffsets, m \in ConcMaskPool, v \in ConcValPool :
                tegra186_pmc_register_update("A", o, m, v)
          \/ spin_lock("A")
          \/ io_dpd_write_tim("A")
          \/ io_dpd_write_req("A")
          \/ udelay("A")
          \/ io_dpd_read_status("A")
          \/ spin_unlock("A")
          \/ spin_lock_irqsave("A")
          \/ register_update_read("A")
          \/ register_update_write("A")
          \/ spin_unlock_irqrestore("A")
    \/ /\ ~IrqsDisabled("A")
       /\ \E o \in ConcOffsets, m \in ConcMaskPool, v \in ConcValPool :
             tegra186_pmc_register_update("B", o, m, v)
    \/ spin_lock_irqsave("B")
    \/ register_update_read("B")
    \/ register_update_write("B")
    \/ spin_unlock_irqrestore("B")

\* a context that can take a step eventually takes one
SpecIrq == InitIrq /\ [][NextIrq]_vars /\ WF_vars(NextIrq)

----------------------------------------------------------------------------
(* The PS18 latch, set and cleared by two contexts at the same time, from *)
(* a FUSE_CTRL word that has at most one of the two latch bits            *)

InitLatch ==
    /\ \E f \in SUBSET FuseSeedBits :
          /\ ~({8, 9} \subseteq f)
          /\ regs = [o \in Offsets |-> IF o = PMC_FUSE_CTRL THEN f ELSE NoBits]
    /\ hwfault = FALSE
    /\ InitContexts(BothCallers)

NextLatch ==
    \E c \in Ctx :
       \/ tegra_pmc_fuse_control_ps18_latch_set(c)
       \/ tegra_pmc_fuse_control_ps18_latch_clear(c)
       \/ latch_read(c)
       \/ latch_write_first(c)
       \/ latch_write_second(c)

SpecLatch == InitLatch /\ [][NextLatch]_vars

----------------------------------------------------------------------------
(* Mirror redirection: one context sets the ENABLE_REDIRECTION bit with   *)
(* the guarded update and calls the two mirroring functions, one after    *)
(* the other, from a FUSE_CTRL word with at most one redirection bit      *)

InitMirror ==
    /\ \E f \in SUBSET FuseSeedBits :
          /\ ~({0, 1} \subseteq f)
          /\ regs = [o \in Offsets |-> IF o = PMC_FUSE_CTRL THEN f ELSE NoBits]
    /\ hwfault = FALSE
    /\ InitContexts(OneCaller)

NextMirror ==
    \/ tegra186_pmc_register_update("A", PMC_FUSE_CTRL,
                                    PMC_FUSE_CTRL_ENABLE_REDIRECTION,
                                    PMC_FUSE_CTRL_ENABLE_REDIRECTION)
    \/ tegra_pmc_fuse_disable_mirroring("A")
    \/ tegra_pmc_fuse_enable_mirroring("A")
    \/ spin_lock_irqsave("A")
    \/ register_update_read("A")
    \/ register_update_write("A")
    \/ spin_unlock_irqrestore("A")
    \/ mirroring_read("A")
    \/ mirroring_write("A")

SpecMirror == InitMirror /\ [][NextMirror]_vars

----------------------------------------------------------------------------
(* NVCSI brick DPD and DPD requests for other pads of groups 0 and 1,     *)
(* called one after the other by one context                              *)

\* bit positions that are brick bits neither in IO_DPD_REQ nor in IO_DPD2_REQ
OtherPadBitPos == {5, 31}

InitBrickDpd ==
    /\ \E s \in BrickSeedPool, t \in BrickSeedPool :
          regs = [o \in Offsets |-> IF o = PMC_IO_DPD_REQ THEN s ELSE t]
    /\ hwfault = FALSE
    /\ InitContexts(OneCaller)

NextBrickDpd ==
    \/ tegra186_pmc_enable_nvcsi_brick_dpd("A")
    \/ tegra186_pmc_disable_nvcsi_brick_dpd("A")
    \/ \E g \in {0, 1}, b \in OtherPadBitPos : tegra186_pmc_io_dpd_enable("A", g, b)
    \/ \E g \in {0, 1}, b \in OtherPadBitPos : tegra186_pmc_io_dpd_disable("A", g, b)
    \/ brick_read_ab("A")
    \/ brick_write_ab("A")
    \/ brick_read_cdef("A")
    \/ brick_write_cdef("A")
    \/ spin_lock("A")
    \/ io_dpd_write_tim("A")
    \/ io_dpd_write_req("A")
    \/ udelay("A")
    \/ io_dpd_read_status("A")
    \/ spin_unlock("A")

SpecBrickDpd == InitBrickDpd /\ [][NextBrickDpd]_vars

----------------------------------------------------------------------------
(* Properties *)

Done(c) == pc[c] = "done"
Reg(o) == regs[o]
Before(c, o) == pre[c][o]
OthersUnchanged(c, touched) ==
    \A o \in Offsets \ touched : Reg(o) = Before(c, o)

UpdateOps ==
    {"register_update", "pad_voltage_update", "nvcsi_ab_brick_update",
     "nvcsi_cdef_brick_update", "ufs_pwrcntrl_update", "sata_pwrgt_update"}

\* the register a call of the update family is documented to address
AddressedOffset(cl) ==
    CASE Op(cl) = "nvcsi_ab_brick_update" -> 116
      [] Op(cl) = "nvcsi_cdef_brick_update" -> 124
      [] Op(cl) = "ufs_pwrcntrl_update" -> 244
      [] Op(cl) = "sata_pwrgt_update" -> 104
      [] OTHER -> Arg(cl)

\* C1: when a call of tegra186_pmc_register_update or of one of its
\* fixed-offset wrappers has returned, with no other writer running, the
\* addressed register agrees with the value inside the mask, keeps the bits
\* it had on entry outside the mask, and every other register is unchanged.
C1_UpdateContract ==
    \A c \in Ctx :
       (Done(c) /\ Op(call[c]) \in UpdateOps) =>
          LET o == AddressedOffset(call[c])
              m == Mask(call[c])
          IN /\ Reg(o) \cap m = Val(call[c]) \cap m
             /\ Reg(o) \ m = Before(c, o) \ m
             /\ OthersUnchanged(c, {o})

\* a wrapper has changed bits inside a partial mask and kept bits outside it
C1_Witness ==
    /\ Done("A")
    /\ Op(call["A"]) = "ufs_pwrcntrl_update"
    /\ Mask(call["A"]) = {1, 8, 31}
    /\ Reg(244) # Before("A", 244)
    /\ Reg(244) \ {1, 8, 31} # NoBits

\* C2: when two contexts have both returned from concurrent calls of the
\* update family on the same register with disjoint masks, the register
\* holds each call's value inside that call's mask and the bits it had
\* before the calls everywhere else.
C2_NoLostUpdate ==
    (/\ Done("A") /\ Done("B")
     /\ Op(call["A"]) \in UpdateOps /\ Op(call["B"]) \in UpdateOps
     /\ AddressedOffset(call["A"]) = AddressedOffset(call["B"])
     /\ Mask(call["A"]) \cap Mask(call["B"]) = NoBits)
    =>
    LET o == AddressedOffset(call["A"])
        both == Mask(call["A"]) \cup Mask(call["B"])
    IN /\ Reg(o) \cap Mask(call["A"]) = Val(call["A"]) \cap Mask(call["A"])
       /\ Reg(o) \cap Mask(call["B"]) = Val(call["B"]) \cap Mask(call["B"])
       /\ \A c \in Ctx : Reg(o) \ both = Before(c, o) \ both

\* both calls overlapped in time (B entered before A had written) and both
\* changed the register
C2_Witness ==
    /\ Done("A") /\ Done("B")
    /\ Op(call["A"]) = "register_update" /\ Op(call["B"]) = "pad_voltage_update"
    /\ Arg(call["A"]) = Arg(call["B"])
    /\ Mask(call["A"]) = {0} /\ Mask(call["B"]) = {1, 8, 31}
    /\ Val(call["A"]) = Bits /\ Val(call["B"]) = Bits
    /\ pre["A"] = pre["B"]
    /\ Reg(Arg(call["A"])) = Before("A", Arg(call["A"])) \cup {0, 1, 8, 31}
    /\ Before("A", Arg(call["A"])) = NoBits

\* C3: every write to a register of the block is made by a context that
\* holds tegra186_pmc_access_lock at the time of the write.
C3_EveryWriteUnderGuard == Guarded(wlog)

\* C4: on fault-free hardware, get_status right after enable of the same
\* pad returns 1, and get_status right after disable of the same pad
\* returns 0.
C4_StatusAfterEnableDisable ==
    \A c \in Ctx :
       (/\ ~hwfault /\ Done(c)
        /\ Op(call[c]) = "io_dpd_get_status"
        /\ Arg(LastCall(prev[c])) = Arg(call[c]) /\ BitPos(LastCall(prev[c])) = BitPos(call[c]))
       =>
       /\ Op(LastCall(prev[c])) = "io_dpd_enable" => ret[c] = 1
       /\ Op(LastCall(prev[c])) = "io_dpd_disable" => ret[c] = 0

\* the half of C4 the code does satisfy: status right after enable is 1
C4_StatusAfterEnable ==
    \A c \in Ctx :
       (/\ ~hwfault /\ Done(c)
        /\ Op(call[c]) = "io_dpd_get_status"
        /\ Op(LastCall(prev[c])) = "io_dpd_enable"
        /\ Arg(LastCall(prev[c])) = Arg(call[c]) /\ BitPos(LastCall(prev[c])) = BitPos(call[c]))
       => ret[c] = 1

\* C5: DPD enable and disable return 0 whatever status was read; enable has
\* warned exactly when the pad's bit is clear in the status register after
\* the settle delay, disable exactly when it is set; and the lock is free
\* again on return in both cases.
C5_DpdAlwaysSucceeds ==
    \A c \in Ctx :
       (Done(c) /\ Op(call[c]) \in {"io_dpd_enable", "io_dpd_disable"}) =>
          LET status == Reg(120 + 8 * Arg(call[c]))
              bitset == BitPos(call[c]) \in status
          IN /\ ret[c] = 0
             /\ lock # c
             /\ Op(call[c]) = "io_dpd_enable" => (warned[c] <=> ~bitset)
             /\ Op(call[c]) = "io_dpd_disable" => (warned[c] <=> bitset)

\* an enable whose verification failed still returned 0 with the lock free
C5_Witness ==
    /\ Done("A")
    /\ Op(call["A"]) = "io_dpd_enable"
    /\ warned["A"]
    /\ ret["A"] = 0
    /\ lock = Free

\* a disable whose verification passed (faulty hardware showing 0)
C5_WitnessQuiet ==
    /\ Done("A")
    /\ Op(call["A"]) = "io_dpd_disable"
    /\ ~warned["A"]

\* C6: on return, ps18_latch_set leaves bit 9 clear and bit 8 set,
\* ps18_latch_clear leaves bit 8 clear and bit 9 set, so no call of a
\* sequential sequence of the two returns with both bits set.
C6_LatchPostcondition ==
    \A c \in Ctx :
       /\ (Done(c) /\ Op(call[c]) = "ps18_latch_set") =>
             (8 \in Reg(256) /\ 9 \notin Reg(256))
       /\ (Done(c) /\ Op(call[c]) = "ps18_latch_clear") =>
             (9 \in Reg(256) /\ 8 \notin Reg(256))

\* latch_clear returned after a latch_set, from a register that had both bits
C6_Witness ==
    /\ Done("A")
    /\ Op(call["A"]) = "ps18_latch_clear"
    /\ Op(LastCall(prev["A"])) = "ps18_latch_set"
    /\ 8 \in Before("A", 256)
    /\ Reg(256) \cap {8, 9} = {9}

\* C7: a mirroring call changes only bits 0 and 1 of FUSE_CTRL.
C7_MirroringKeepsOtherBits ==
    \A c \in Ctx :
       (Done(c) /\ Op(call[c]) \in {"fuse_enable_mirroring", "fuse_disable_mirroring"})
       => Reg(256) \ {0, 1} = Before(c, 256) \ {0, 1}

\* C8: two consecutive calls of the same mirroring function write FUSE_CTRL
\* at most once in total, and the second call leaves the register unchanged.
C8_MirroringTwice ==
    \A c \in Ctx :
       (/\ Done(c)
        /\ Op(call[c]) \in {"fuse_enable_mirroring", "fuse_disable_mirroring"}
        /\ Op(LastCall(prev[c])) = Op(call[c]))
       =>
       /\ LastWrites(prev[c]) + nw[c] <= 1
       /\ Reg(256) = Before(c, 256)

\* the first of two enable_mirroring calls wrote, the second did not
C8_Witness ==
    /\ Done("A")
    /\ Op(call["A"]) = "fuse_enable_mirroring"
    /\ Op(LastCall(prev["A"])) = "fuse_enable_mirroring"
    /\ LastWrites(prev["A"]) = 1
    /\ nw["A"] = 0

\* C9: brick DPD enable sets exactly bits 0, 1 of 0x74 and bits 11..14 of
\* 0x7C, brick DPD disable clears exactly those, and nothing else changes.
C9_BrickExactBits ==
    \A c \in Ctx :
       /\ (Done(c) /\ Op(call[c]) = "enable_nvcsi_brick_dpd") =>
             /\ Reg(116) = Before(c, 116) \cup {0, 1}
             /\ Reg(124) = Before(c, 124) \cup (11 .. 14)
             /\ OthersUnchanged(c, {116, 124})
       /\ (Done(c) /\ Op(call[c]) = "disable_nvcsi_brick_dpd") =>
             /\ Reg(116) = Before(c, 116) \ {0, 1}
             /\ Reg(124) = Before(c, 124) \ (11 .. 14)
             /\ OthersUnchanged(c, {116, 124})

\* disable returned having cleared brick bits and kept other set bits
C9_Witness ==
    /\ Done("A")
    /\ Op(call["A"]) = "disable_nvcsi_brick_dpd"
    /\ Before("A", 116) = {0, 5, 11, 14}
    /\ Reg(116) = {5, 11, 14}
    /\ Before("A", 124) = {1, 12, 13, 31}
    /\ Reg(124) = {1, 31}

\* C10: iopower_enable clears exactly the bits of a non-zero bit_mask and
\* iopower_disable sets exactly them; a second identical call changes
\* nothing; get_status of the same register and mask returns 1 right after
\* enable and 0 right after disable.
C10_Iopower ==
    \A c \in Ctx :
       LET o == Arg(call[c])
           m == Mask(call[c])
           same == Arg(LastCall(prev[c])) = o /\ Mask(LastCall(prev[c])) = m
       IN /\ (Done(c) /\ Op(call[c]) = "iopower_enable") =>
                /\ Reg(o) = Before(c, o) \ m
                /\ OthersUnchanged(c, {o})
                /\ (same /\ Op(LastCall(prev[c])) = "iopower_enable") => regs = pre[c]
          /\ (Done(c) /\ Op(call[c]) = "iopower_disable") =>
                /\ Reg(o) = Before(c, o) \cup m
                /\ OthersUnchanged(c, {o})
                /\ (same /\ Op(LastCall(prev[c])) = "iopower_disable") => regs = pre[c]
          /\ (Done(c) /\ Op(call[c]) = "iopower_get_status" /\ same) =>
                /\ Op(LastCall(prev[c])) = "iopower_enable" => ret[c] = 1
                /\ Op(LastCall(prev[c])) = "iopower_disable" => ret[c] = 0

\* get_status returned 1 right after an enable that cleared set bits
C10_Witness ==
    /\ Done("A")
    /\ Op(call["A"]) = "iopower_get_status"
    /\ Op(LastCall(prev["A"])) = "iopower_enable"
    /\ Arg(LastCall(prev["A"])) = Arg(call["A"])
    /\ Mask(LastCall(prev["A"])) = Mask(call["A"])
    /\ Mask(call["A"]) = {1, 8, 31}
    /\ Reg(Arg(call["A"])) = {0, 12}
    /\ ret["A"] = 1

\* C11: no call that has started is ever left unable to proceed: in every
\* reachable state with a process context and an interrupt handler on one
\* CPU, if some call has not returned then some step can be taken, so that
\* under fair scheduling every call returns and the lock is released.
C11_NoCallStuck ==
    (\E c \in Ctx : pc[c] \notin {"idle", "done"}) => ENABLED NextIrq

\* a DPD enable or disable call that has made its first register write and
\* has not yet read the status register
InDpdWindow(c) ==
    /\ Op(call[c]) \in {"io_dpd_enable", "io_dpd_disable"}
    /\ nw[c] >= 1
    /\ pc[c] \in {"dpd_req", "dpd_delay", "dpd_status"}

\* C12: while a DPD enable or disable call is between its first register
\* write and its status read, it holds the lock and no step of any other
\* context writes a register of the block.
C12_DpdIndivisible ==
    [][\A c \in Ctx :
          InDpdWindow(c) =>
             /\ lock = c
             /\ \A d \in Ctx \ {c} : nw'[d] <= nw[d]]_vars

\* C13: with latch_set and latch_clear calls of two contexts interleaved at
\* every read and write, from a FUSE_CTRL word with at most one latch bit,
\* FUSE_CTRL never has bits 8 and 9 both set; and within a call the first
\* write carries a word without the opposite bit, the second write, made
\* after it, a word with the asserted bit and without the opposite bit.
C13_LatchBitsExclusive ==
    /\ ~({8, 9} \subseteq Reg(256))
    /\ \A c \in Ctx :
          LET asserted == IF Op(call[c]) = "ps18_latch_set" THEN 8 ELSE 9
              opposite == IF Op(call[c]) = "ps18_latch_set" THEN 9 ELSE 8
          IN Op(call[c]) \in {"ps18_latch_set", "ps18_latch_clear"} =>
                /\ pc[c] \in {"latch_read", "latch_write1"} => nw[c] = 0
                /\ pc[c] = "latch_write2" => (nw[c] = 1 /\ opposite \notin val[c])
                /\ Done(c) =>
                      (nw[c] = 2 /\ asserted \in val[c] /\ opposite \notin val[c])

\* a latch_set and a latch_clear that both read the register before either
\* wrote have returned, the latch_clear writing last
C13_Witness ==
    /\ Done("A") /\ Done("B")
    /\ Op(call["A"]) = "ps18_latch_set" /\ Op(call["B"]) = "ps18_latch_clear"
    /\ pre["A"] = pre["B"]
    /\ 8 \in Before("A", 256)
    /\ 8 \in val["A"] /\ 9 \in val["B"]
    /\ Reg(256) \cap {8, 9} = {9}

\* C14: when a brick DPD call or a latch call of one context and an update
\* of other bits of the same register by another context have both
\* returned, the register holds the update's value inside its mask and the
\* bits the brick DPD or latch call sets and clears.
C14_CompositeNoLostUpdate ==
    \A c \in Ctx : \A d \in Ctx \ {c} :
       (Done(c) /\ Done(d) /\ Op(call[d]) \in UpdateOps) =>
          LET o == AddressedOffset(call[d])
              m == Mask(call[d])
              updated == Reg(o) \cap m = Val(call[d]) \cap m
          IN /\ (Op(call[c]) = "ps18_latch_set" /\ o = 256 /\ m \cap {8, 9} = NoBits)
                   => (updated /\ Reg(256) \cap {8, 9} = {8})
             /\ (Op(call[c]) = "ps18_latch_clear" /\ o = 256 /\ m \cap {8, 9} = NoBits)
                   => (updated /\ Reg(256) \cap {8, 9} = {9})
             /\ (Op(call[c]) = "enable_nvcsi_brick_dpd" /\ o = 116 /\ m \cap {0, 1} = NoBits)
                   => (updated /\ {0, 1} \subseteq Reg(116))
             /\ (Op(call[c]) = "enable_nvcsi_brick_dpd" /\ o = 124 /\ m \cap (11 .. 14) = NoBits)
                   => (updated /\ (11 .. 14) \subseteq Reg(124))
             /\ (Op(call[c]) = "disable_nvcsi_brick_dpd" /\ o = 116 /\ m \cap {0, 1} = NoBits)
                   => (updated /\ Reg(116) \cap {0, 1} = NoBits)
             /\ (Op(call[c]) = "disable_nvcsi_brick_dpd" /\ o = 124 /\ m \cap (11 .. 14) = NoBits)
                   => (updated /\ Reg(124) \cap (11 .. 14) = NoBits)

MirroringOps == {"fuse_enable_mirroring", "fuse_disable_mirroring"}

\* the call is update(FUSE_CTRL, ENABLE_REDIRECTION, ENABLE_REDIRECTION)
IsEnableRedirectionUpdate(cl) ==
    /\ Op(cl) = "register_update"
    /\ Arg(cl) = 256
    /\ Mask(cl) = {0}
    /\ Val(cl) = {0}

\* bit 0 is set after the update and after enable_mirroring, clear after
\* disable_mirroring; disable_mirroring right after the update leaves bit 1
\* set; disable_mirroring entered with bit 0 clear writes nothing
MirroringPostconditions ==
    \A c \in Ctx :
       /\ (Done(c) /\ IsEnableRedirectionUpdate(call[c])) => 0 \in Reg(256)
       /\ (Done(c) /\ Op(call[c]) = "fuse_enable_mirroring") => 0 \in Reg(256)
       /\ (Done(c) /\ Op(call[c]) = "fuse_disable_mirroring") =>
             /\ 0 \notin Reg(256)
             /\ IsEnableRedirectionUpdate(LastCall(prev[c])) => 1 \in Reg(256)
             /\ 0 \notin Before(c, 256) => (nw[c] = 0 /\ regs = pre[c])

\* C15 as stated: the postconditions above, and after every mirroring call
\* at most one of bits 0 and 1 of FUSE_CTRL is set.
C15_MirroringAsStated ==
    /\ MirroringPostconditions
    /\ \A c \in Ctx :
          (Done(c) /\ Op(call[c]) \in MirroringOps) => ~({0, 1} \subseteq Reg(256))

\* C15, amended: the postconditions above, and a mirroring call entered
\* with at most one of bits 0 and 1 set returns with at most one of them
\* set (so does every sequence of mirroring calls from such a word).
C15_Mirroring ==
    /\ MirroringPostconditions
    /\ \A c \in Ctx :
          (/\ Done(c) /\ Op(call[c]) \in MirroringOps
           /\ ~({0, 1} \subseteq Before(c, 256)))
          => ~({0, 1} \subseteq Reg(256))

\* disable_mirroring right after the update that set bit 0 has cleared it
\* and set bit 1
C15_Witness ==
    /\ Done("A")
    /\ Op(call["A"]) = "fuse_disable_mirroring"
    /\ IsEnableRedirectionUpdate(LastCall(prev["A"]))
    /\ 0 \in Before("A", 256)
    /\ nw["A"] = 1
    /\ Reg(256) \cap {0, 1} = {1}

\* C16: at every point of a DPD enable or disable call the steps made so
\* far are, in this order and with the lock held from the first to the
\* last: for enable only, the write of 0x10 to 0xBC; the write of 1 << bit
\* to the group's request register; the settle delay, after which
\* fault-free hardware shows the request in the status register; the read
\* of the status register; the release of the lock.  Disable makes one
\* write in all, to the request register.
C16_DpdStepOrder ==
    \A c \in Ctx :
       Op(call[c]) \in {"io_dpd_enable", "io_dpd_disable"} =>
          LET req == 116 + 8 * Arg(call[c])
              status == 120 + 8 * Arg(call[c])
              word == {BitPos(call[c])}
              tim == IF Op(call[c]) = "io_dpd_enable" THEN 1 ELSE 0
          IN /\ pc[c] = "dpd_lock" => (lock # c /\ nw[c] = 0)
             /\ pc[c] = "dpd_tim" =>
                   (Op(call[c]) = "io_dpd_enable" /\ lock = c /\ nw[c] = 0)
             /\ pc[c] = "dpd_req" =>
                   /\ lock = c /\ nw[c] = tim
                   /\ tim = 1 => (wlog = <<c, 188, TRUE>> /\ Reg(188) = {4})
             /\ pc[c] \in {"dpd_delay", "dpd_status", "dpd_unlock", "done"} =>
                   (nw[c] = tim + 1 /\ wlog = <<c, req, TRUE>> /\ Reg(req) = word)
             /\ pc[c] = "dpd_delay" => lock = c
             /\ pc[c] = "dpd_status" =>
                   (lock = c /\ (~hwfault => Reg(status) = word))
             /\ pc[c] = "dpd_unlock" =>
                   (lock = c /\ val[c] = Reg(status) /\ (~hwfault => val[c] = word))
             /\ Done(c) => (lock # c /\ (tim = 0 => Reg(188) = Before(c, 188)))

\* an enable has read, with the lock held and after its two writes, the
\* status that fault-free hardware shows once the request has settled
C16_Witness ==
    /\ pc["A"] = "dpd_unlock"
    /\ Op(call["A"]) = "io_dpd_enable"
    /\ ~hwfault
    /\ lock = "A"
    /\ nw["A"] = 2
    /\ Reg(188) = {4}
    /\ Before("A", 120 + 8 * Arg(call["A"])) = NoBits
    /\ val["A"] = {BitPos(call["A"])}

\* C17: the request registers 0x74 + 8g and the status registers 0x78 + 8g
\* of the eight groups are sixteen distinct offsets, none of them 0xBC; a
\* DPD enable or disable of group g has written 1 << bit to 0x74 + 8g and
\* changed, besides group g's own request and status registers, no
\* register but 0xBC, which only enable writes; get_status returns the bit
\* of 0x78 + 8g and changes nothing.
C17_DpdGroupFrame ==
    /\ Cardinality({DpdReqOffset(g) : g \in 0 .. 7}
                      \cup {DpdStatusOffset(g) : g \in 0 .. 7} \cup {188}) = 17
    /\ \A g \in 0 .. 7 :
          DpdReqOffset(g) = 116 + 8 * g /\ DpdStatusOffset(g) = 120 + 8 * g
    /\ \A c \in Ctx :
          LET g == Arg(call[c])
          IN /\ (Done(c) /\ Op(call[c]) = "io_dpd_enable") =>
                   /\ Reg(116 + 8 * g) = {BitPos(call[c])}
                   /\ OthersUnchanged(c, {116 + 8 * g, 120 + 8 * g, 188})
             /\ (Done(c) /\ Op(call[c]) = "io_dpd_disable") =>
                   /\ Reg(116 + 8 * g) = {BitPos(call[c])}
                   /\ OthersUnchanged(c, {116 + 8 * g, 120 + 8 * g})
             /\ (Done(c) /\ Op(call[c]) = "io_dpd_get_status") =>
                   /\ ret[c] = (IF BitPos(call[c]) \in Reg(120 + 8 * g) THEN 1 ELSE 0)
                   /\ regs = pre[c]

\* an enable of the last group from an all-ones block has changed that
\* group's request and status registers and the timer, and nothing else
C17_Witness ==
    /\ Done("A")
    /\ Op(call["A"]) = "io_dpd_enable"
    /\ Arg(call["A"]) = 7
    /\ ~hwfault
    /\ Before("A", 172) = Bits /\ Reg(172) = {BitPos(call["A"])}
    /\ Before("A", 176) = Bits /\ Reg(176) = {BitPos(call["A"])}
    /\ Reg(188) = {4}
    /\ Reg(164) = Bits /\ Reg(168) = Bits

\* C18: when a DPD enable or disable of group 0 or 1, for a bit position
\* that is not a brick bit, returns right after brick DPD enable, bits 0
\* and 1 of IO_DPD_REQ and bits 11..14 of IO_DPD2_REQ are still set.
C18_BrickBitsSurvive ==
    \A c \in Ctx :
       (/\ Done(c)
        /\ Op(call[c]) \in {"io_dpd_enable", "io_dpd_disable"}
        /\ \/ Arg(call[c]) = 0 /\ BitPos(call[c]) \notin {0, 1}
           \/ Arg(call[c]) = 1 /\ BitPos(call[c]) \notin 11 .. 14
        /\ Op(LastCall(prev[c])) = "enable_nvcsi_brick_dpd")
       =>
       /\ {0, 1} \subseteq Reg(116)
       /\ (11 .. 14) \subseteq Reg(124)

\* program points between taking and releasing tegra186_pmc_access_lock
InCriticalSection(c) ==
    pc[c] \in {"upd_read", "upd_write", "upd_unlock",
               "dpd_tim", "dpd_req", "dpd_delay", "dpd_status", "dpd_unlock"}

GuardedOps == UpdateOps \cup {"iopower_enable", "iopower_disable",
                              "io_dpd_enable", "io_dpd_disable"}

\* C19: at most one context is between taking and releasing the lock, and
\* it is the context the lock records as its owner; a call of a locking
\* function does not own the lock before it has taken it nor after it has
\* returned; and the lock is free whenever no context is in between.
C19_GuardIsMutex ==
    /\ Cardinality({c \in Ctx : InCriticalSection(c)}) <= 1
    /\ \A c \in Ctx : InCriticalSection(c) <=> lock = c
    /\ \A c \in Ctx :
          (Op(call[c]) \in GuardedOps /\ pc[c] \in {"upd_lock", "dpd_lock", "done"})
          => lock # c
    /\ (\A c \in Ctx : ~InCriticalSection(c)) => lock = Free

\* an update waits at its spin_lock_irqsave while a DPD sequence, past its
\* request write, holds the lock
C19_Witness ==
    /\ pc["A"] = "dpd_delay"
    /\ lock = "A"
    /\ Op(call["B"]) = "register_update"
    /\ pc["B"] = "upd_lock"

====
